---------------------------- MODULE Spec2Model ----------------------------
(***************************************************************************)
(* CTF cFS time manager (plugins/cfs/cfs_time_manager.py) and the CCSDS    *)
(* secondary headers (plugins/ccsds_plugin/cfe/ccsds_secondary_header.py). *)
(*                                                                         *)
(* exec_time, start_time, seconds and the poll period are Python floats:   *)
(* IEEE-754 binary64 numbers.  They are modelled bit for bit: a float is a *)
(* record [s, e, m] of value (-1)^s * M * 2^e, where m is the 53-bit       *)
(* significand M written as two limbs, the low one first (zero has M = 0). *)
(* Sums are rounded to nearest, ties to even, as the hardware rounds them. *)
(***************************************************************************)
EXTENDS Integers, Sequences, FiniteSets

\* ------------------------------------------------------------------------
\* Bounds of the exploration
\* ------------------------------------------------------------------------

\* Largest number of entries of the target registry.
MaxTargets == 2

\* Number of wait() calls made on one manager.
MaxWaits == 2

\* ------------------------------------------------------------------------
\* Natural numbers of any size, as sequences of LimbBits-bit limbs, least
\* significant limb first (TLC's integers have 32 bits)
\* ------------------------------------------------------------------------

Max(a, b) == IF a >= b THEN a ELSE b

Min(a, b) == IF a <= b THEN a ELSE b

\* Three groups of 9 bits, the digits of the long division below.
LimbBits == 3 * 9

LimbBase == 2 ^ LimbBits

Limb(a, i) == IF i >= 1 /\ i <= Len(a) THEN a[i] ELSE 0

\* Bit i of a, the least significant being bit 1.
Bit(a, i) == (Limb(a, (i - 1) \div LimbBits + 1) \div (2 ^ ((i - 1) % LimbBits))) % 2

\* Number of bits of the integer v < LimbBase (0 for 0).
IntLen(v) == CHOOSE k \in 0..LimbBits : v < 2 ^ k /\ (k = 0 \/ v >= 2 ^ (k - 1))

\* Position of the highest 1 bit of a (0 for the number 0).
BLen(a) ==
    LET t == CHOOSE i \in 0..Len(a) :
                 /\ i = 0 \/ a[i] # 0
                 /\ \A k \in (i + 1)..Len(a) : a[k] = 0
    IN IF t = 0 THEN 0 ELSE (t - 1) * LimbBits + IntLen(a[t])

\* The LimbBits bits of a that start lo bits above its least significant
\* bit (lo may be negative: the bits below bit 1 are 0).
Extract(a, lo) ==
    LET q == lo \div LimbBits
        r == lo % LimbBits
    IN (Limb(a, q + 1) \div (2 ^ r)) + (Limb(a, q + 2) % (2 ^ r)) * (2 ^ (LimbBits - r))

\* a * 2^k
Shl(a, k) == [j \in 1..(Len(a) + k \div LimbBits + 1) |-> Extract(a, (j - 1) * LimbBits - k)]

\* a \div 2^d
Shr(a, d) == [j \in 1..Len(a) |-> Extract(a, d + (j - 1) * LimbBits)]

\* Whether one of the d lowest bits of a is 1.
LowBits(a, d) ==
    \/ \E j \in 1..(d \div LimbBits) : Limb(a, j) # 0
    \/ Limb(a, d \div LimbBits + 1) % (2 ^ (d % LimbBits)) # 0

\* a + b: limb i of the sum from limb i of a, of b and the carry c
RECURSIVE BAddFrom(_, _, _, _, _, _)
BAddFrom(a, b, i, n, c, acc) ==
    IF i > n THEN acc
    ELSE LET t == Limb(a, i) + Limb(b, i) + c
         IN BAddFrom(a, b, i + 1, n, t \div LimbBase, Append(acc, t % LimbBase))

BAdd(a, b) == BAddFrom(a, b, 1, Max(Len(a), Len(b)) + 1, 0, <<>>)

\* a - b, for a >= b: limb i of the difference, with the borrow c
RECURSIVE BSubFrom(_, _, _, _, _, _)
BSubFrom(a, b, i, n, c, acc) ==
    IF i > n THEN acc
    ELSE LET t == Limb(a, i) - Limb(b, i) - c
         IN BSubFrom(a, b, i + 1, n, IF t < 0 THEN 1 ELSE 0,
                     Append(acc, IF t < 0 THEN t + LimbBase ELSE t))

BSub(a, b) == BSubFrom(a, b, 1, Max(Len(a), Len(b)), 0, <<>>)

\* -1, 0 or 1 as a < b, a = b or a > b
BCmp(a, b) ==
    LET n == Max(Len(a), Len(b))
        differ == {i \in 1..n : Limb(a, i) # Limb(b, i)}
        top == CHOOSE i \in differ : \A k \in differ : k <= i
    IN IF differ = {} THEN 0
       ELSE IF Limb(a, top) < Limb(b, top) THEN -1 ELSE 1

\* ------------------------------------------------------------------------
\* Python float (IEEE-754 binary64)
\* ------------------------------------------------------------------------

\* Bits of the significand of a binary64 number.
Precision == 53

FZero == [s |-> 0, e |-> 0, m |-> <<0, 0>>]

\* The float nearest to (-1)^s * (M + sticky) * 2^e, where sticky stands for
\* a positive amount below one unit of M: round to nearest, ties to even.
FRound(s, M, e, sticky) ==
    LET n == BLen(M)
    IN IF n = 0 THEN FZero
       ELSE IF n <= Precision
       THEN [s |-> s, e |-> e - (Precision - n),
             m |-> SubSeq(Shl(M, Precision - n) \o <<0>>, 1, 2)]
       ELSE LET d    == n - Precision
                kept == SubSeq(Shr(M, d) \o <<0>>, 1, 2)
                rest == sticky \/ LowBits(M, d - 1)
                up   == Bit(M, d) = 1 /\ (rest \/ kept[1] % 2 = 1)
                k2   == IF up THEN BAdd(kept, <<1>>) ELSE kept
            IN IF BLen(k2) = Precision + 1
               THEN [s |-> s, e |-> e + d + 1, m |-> SubSeq(Shr(k2, 1), 1, 2)]
               ELSE [s |-> s, e |-> e + d, m |-> SubSeq(k2, 1, 2)]

\* -1, 0 or 1 as |x| < |y|, |x| = |y| or |x| > |y|
FMagCmp(x, y) ==
    LET e == Min(x.e, y.e)
    IN IF x.m = FZero.m THEN (IF y.m = FZero.m THEN 0 ELSE -1)
       ELSE IF y.m = FZero.m THEN 1
       ELSE IF x.e - y.e >= Precision THEN 1
       ELSE IF y.e - x.e >= Precision THEN -1
       ELSE BCmp(Shl(x.m, x.e - e), Shl(y.m, y.e - e))

\* x + y in float arithmetic: the exact sum, rounded once.  An operand below
\* a quarter of the other's last place cannot change the rounded result.
FAdd(x, y) ==
    LET e == Min(x.e, y.e)
        X == Shl(x.m, x.e - e)
        Y == Shl(y.m, y.e - e)
    IN IF x.m = FZero.m THEN y
       ELSE IF y.m = FZero.m THEN x
       ELSE IF x.e - y.e >= Precision + 2 THEN x
       ELSE IF y.e - x.e >= Precision + 2 THEN y
       ELSE IF x.s = y.s THEN FRound(x.s, BAdd(X, Y), e, FALSE)
       ELSE IF BCmp(X, Y) >= 0 THEN FRound(x.s, BSub(X, Y), e, FALSE)
       ELSE FRound(y.s, BSub(Y, X), e, FALSE)

\* x < y
FLess(x, y) ==
    IF x.s = 0 /\ y.s = 0 THEN FMagCmp(x, y) < 0
    ELSE IF x.s = 1 /\ y.s = 1 THEN FMagCmp(x, y) > 0
    ELSE x.s = 1 /\ (x.m # FZero.m \/ y.m # FZero.m)

\* Long division of r/den (r < den): the next t groups of 9 quotient bits,
\* most significant first, and the last remainder.
RECURSIVE DivDigits(_, _, _, _)
DivDigits(r, den, t, acc) ==
    IF t = 0 THEN <<acc, r>>
    ELSE DivDigits((r * 512) % den, den, t - 1, Append(acc, (r * 512) \div den))

\* A decimal numeral n/d (d > 0), as the caller or the configuration file
\* writes it, converted to the nearest float: what float("0.1") returns.
FromRatio(q) ==
    LET n == q[1]
        d == q[2]
        a == IF n < 0 THEN -n ELSE n
        j == CHOOSE k \in 0..20 : a * (2 ^ k) >= d /\ \A l \in 0..(k - 1) : a * (2 ^ l) < d
        i == CHOOSE k \in 0..20 : d * (2 ^ k) <= a * (2 ^ j) /\ a * (2 ^ j) < d * (2 ^ (k + 1))
        num == a * (2 ^ j)
        den == d * (2 ^ i)
        \* num/den lies in [1, 2): a leading 1, then 7 groups of 9 bits
        qr  == DivDigits(num - den, den, 7, <<>>)
        c   == qr[1]
        Q   == << c[5] * 262144 + c[6] * 512 + c[7],
                  c[2] * 262144 + c[3] * 512 + c[4],
                  512 + c[1] >>
    IN IF a = 0 THEN FZero
       ELSE FRound(IF n < 0 THEN 1 ELSE 0, Q, i - j - 63, qr[2] # 0)

\* ------------------------------------------------------------------------
\* Exceptions
\* ------------------------------------------------------------------------

\* Whether CtfConditionError derives from CtfTestError (its class is defined
\* in plugins/cfs/pycfs/cfs_interface.py).
ConditionErrorIsTestError == TRUE

\* isinstance(e, cls) for an exception e of class k
IsInstance(k, cls) ==
    \/ k = cls
    \/ cls = "Exception"
    \/ k = "CtfConditionError" /\ cls = "CtfTestError" /\ ConditionErrorIsTestError

\* What a call returns: "ok", or the class of the exception it raises.
Outcomes == {"ok", "Exception", "CtfTestError", "CtfConditionError"}

\* ------------------------------------------------------------------------
\* TimeInterface, the base class (lib/time_interface.py)
\* ------------------------------------------------------------------------

\* TimeInterface.__init__: exec_time starts at 0.0
TimeInterfaceInit == FZero

\* TimeInterface.wait(seconds), called first by CfsTimeManager.wait: leaves
\* exec_time t as it is
TimeInterfaceWait(t, s) == t

\* TimeInterface.pre_command and post_command: extension points that do
\* nothing and raise nothing
TimeInterfacePreCommand == "ok"

TimeInterfacePostCommand == "ok"

\* ------------------------------------------------------------------------
\* Inputs
\* ------------------------------------------------------------------------

\* An entry of the registry cfs_targets: a target with a cFS interface
\* ("live"), a target whose cfs attribute is None ("no_cfs"), or None.
TargetKinds == {"live", "no_cfs", "none"}

Registries == UNION {[1..n -> TargetKinds] : n \in 0..MaxTargets}

\* Values of core/ctf_verification_poll_period, as numerals <<n, d>> = n/d;
\* 0.1 is the fallback.
PollPeriods == {<<1, 10>>, <<1, 4>>, <<3, 20>>}

\* Arguments of wait, as numerals <<n, d>> = n/d
SecondsArgs == {<<-1, 10>>, <<0, 1>>, <<1, 5>>, <<1, 4>>, <<2, 5>>, <<9, 20>>, <<1, 2>>}

\* The float wait receives for each of these numerals
SecondsFloat == [q \in SecondsArgs |-> FromRatio(q)]

\* Arguments of set_function_code and set_checksum: Python integers, in and
\* out of the range of a c_uint8
ByteArgs == {-1, 0, 1, 128, 255, 256, 300}

\* h * 2^16 + l as limbs: Python integers of 32 bits and more
FromHalves(h, l) == <<(h % 2048) * 65536 + l, h \div 2048>>

\* Values given to timestamp_seconds: 0, 1, 0x01020304, 2^31, 0x89ABCDEF,
\* 2^32 - 1 and, out of range, 2^32 + 5
SecondsValues ==
    {FromHalves(0, 0), FromHalves(0, 1), FromHalves(258, 772), FromHalves(32768, 0),
     FromHalves(35243, 52719), FromHalves(65535, 65535), FromHalves(65536, 5)}

\* Values given to timestamp_subseconds: 0x0506 among them, -1 and 2^16 + 7
\* out of range
SubsecondsValues == {-1, 0, 1, 1286, 32768, 65535, 65543}

\* ------------------------------------------------------------------------
\* CCSDS secondary headers: ctypes.BigEndianStructure, a buffer of bytes
\* that the fields are stored in and loaded from
\* ------------------------------------------------------------------------

\* _fields_ of CcsdsSecondaryCmdHeader: names, and sizes of c_uint8
CmdFields ==
    <<[name |-> "function_code", size |-> 1], [name |-> "checksum", size |-> 1]>>

\* _fields_ of CcsdsSecondaryTlmHeader: names, and sizes of c_uint32, c_uint16
TlmFields ==
    <<[name |-> "timestamp_seconds", size |-> 4],
      [name |-> "timestamp_subseconds", size |-> 2]>>

\* _pack_ of each class
CmdPack == 1

TlmPack == 1

Fields(kind) == IF kind = "cmd" THEN CmdFields ELSE TlmFields

Pack(kind) == IF kind = "cmd" THEN CmdPack ELSE TlmPack

AlignUp(n, a) == ((n + a - 1) \div a) * a

\* Alignment of a field: that of its type, its size, capped by _pack_
FieldAlign(f, pack) == Min(f.size, pack)

\* Offset of field i in the buffer
RECURSIVE FieldOffset(_, _, _)
FieldOffset(fields, pack, i) ==
    IF i = 1 THEN 0
    ELSE AlignUp(FieldOffset(fields, pack, i - 1) + fields[i - 1].size,
                 FieldAlign(fields[i], pack))

\* ctypes.sizeof: the end of the last field, padded to the largest alignment
SizeOf(fields, pack) ==
    LET n == Len(fields)
        a == CHOOSE x \in {FieldAlign(fields[i], pack) : i \in 1..n} :
                 \A i \in 1..n : FieldAlign(fields[i], pack) <= x
    IN AlignUp(FieldOffset(fields, pack, n) + fields[n].size, a)

\* A saturating store, which a field of a ctypes structure is not.
ByteOfClamped(v, size, k) ==
    IF size <= 2
    THEN (Max(0, Min(v, 2 ^ (8 * size) - 1)) \div (2 ^ (8 * k))) % 256
    ELSE Extract(v, 8 * k) % 256

\* Byte k, 0 the least significant, of the integer v as a field of that size
\* keeps it: the bits of v above the size are dropped.  Integers for fields
\* of 4 bytes are limbs, the others plain integers.
ByteOf(v, size, k) ==
    IF size <= 2 THEN (v \div (2 ^ (8 * k))) % 256 ELSE Extract(v, 8 * k) % 256

\* The bytes of a field in the order of a Structure of a little-endian host.
FieldBytesLittleEndian(v, size) == [j \in 1..size |-> ByteOf(v, size, j - 1)]

\* The bytes of a field of a BigEndianStructure, in memory order
FieldBytes(v, size) == [j \in 1..size |-> ByteOf(v, size, size - j)]

\* The integer a field of a BigEndianStructure holds, from its bytes b
FieldValue(b, size) ==
    IF size = 1 THEN b[1]
    ELSE IF size = 2 THEN b[1] * 256 + b[2]
    ELSE <<(b[1] % 8) * 16777216 + b[2] * 65536 + b[3] * 256 + b[4], b[1] \div 8>>

\* h.<field i> = v
StoreField(buf, fields, pack, i, v) ==
    LET off == FieldOffset(fields, pack, i)
        b   == FieldBytes(v, fields[i].size)
    IN [j \in 1..Len(buf) |->
           IF j > off /\ j <= off + fields[i].size THEN b[j - off] ELSE buf[j]]

\* h.<field i>
LoadField(buf, fields, pack, i) ==
    LET off == FieldOffset(fields, pack, i)
    IN FieldValue(SubSeq(buf, off + 1, off + fields[i].size), fields[i].size)

\* A new structure: a buffer of sizeof zero bytes
NewHeader(kind) == [j \in 1..SizeOf(Fields(kind), Pack(kind)) |-> 0]

\* bytes(h): the buffer, as it is
Bytes(buf) == buf

\* cls.from_buffer_copy(b): a structure on a copy of the first sizeof bytes
FromBufferCopy(kind, b) == SubSeq(b, 1, SizeOf(Fields(kind), Pack(kind)))

\* ------------------------------------------------------------------------
\* State
\* ------------------------------------------------------------------------

VARIABLES
    cfs_targets,                    \* self.cfs_targets, in insertion order
    ctf_verification_poll_period,   \* self.ctf_verification_poll_period
    exec_time,                      \* self.exec_time
    pc,                             \* where the control is
    seconds,                        \* wait's argument
    start_time,                     \* wait's local start_time
    idx,                            \* position of the for loop in progress
    exc,                            \* the exception wait raised, or "none"
    waits,                          \* calls of wait so far
    polls,                          \* iterations of this wait's loop completed
    hooks,                          \* pre_command/post_command calls of this wait
    calls,                          \* calls on the targets in this poll
    result,                         \* what the last of them did
    log,                            \* records logged during this poll
    hdr_kind,                       \* class of the header: "cmd" or "tlm"
    header,                         \* the buffer of the header
    assigned,                       \* the integer last given to each field
    wire,                           \* the last bytes(header), <<>> before
    sent,                           \* assigned, when wire was made
    decoded                         \* the header decoded from wire, <<>> before

mvars == <<cfs_targets, ctf_verification_poll_period, exec_time, pc, seconds,
           start_time, idx, exc, waits, polls, hooks, calls, result, log>>

hvars == <<hdr_kind, header, assigned, wire, sent, decoded>>

vars == <<mvars, hvars>>

NTargets == Len(cfs_targets)

\* ------------------------------------------------------------------------
\* Exception handlers: each maps the exception class k reaching it to the
\* records it logs and the class that leaves it ("none": absorbed)
\* ------------------------------------------------------------------------

\* handle_test_exception_during_wait(e, msg, do_raise)
HandleTestExceptionDuringWait(k, msg, do_raise) ==
    [log   |-> <<"error:" \o msg, "debug:exception">>,
     raise |-> IF do_raise THEN k ELSE "none"]

\* wait's handler with do_raise left at its default, False: what the
\* properties of an aborted wait must rule out.
WaitHandlerNoRaise(k, msg) ==
    IF IsInstance(k, "CtfTestError")
    THEN HandleTestExceptionDuringWait(k, msg, FALSE)
    ELSE [log |-> <<>>, raise |-> k]

\* wait: except CtfTestError as e around pre_command / post_command
WaitHandler(k, msg) ==
    IF IsInstance(k, "CtfTestError")
    THEN HandleTestExceptionDuringWait(k, msg, TRUE)
    ELSE [log |-> <<>>, raise |-> k]

\* The handler of the read had it been written "except Exception" minus the
\* test errors: a CtfTestError of the read would leave pre_command.
ReadHandlerNarrow(target, k) ==
    IF IsInstance(k, "CtfTestError") THEN [log |-> <<>>, raise |-> k]
    ELSE IF target = "none" THEN [log |-> <<>>, raise |-> "AttributeError"]
    ELSE [log |-> <<"error:Failed to receive CFS Telemetry Packets", "debug:traceback">>,
          raise |-> "none"]

\* pre_command: except Exception as e around target.cfs.read_sb_packets().
\* The handler reads target.config.name, which itself raises AttributeError
\* when the entry is None.
ReadHandler(target, k) ==
    IF IsInstance(k, "Exception")
    THEN IF target = "none"
         THEN [log |-> <<>>, raise |-> "AttributeError"]
         ELSE [log |-> <<"error:Failed to receive CFS Telemetry Packets", "debug:traceback">>,
               raise |-> "none"]
    ELSE [log |-> <<>>, raise |-> k]

\* run_continuous_verifications: except CtfConditionError as e
VerificationsHandler(k) ==
    IF IsInstance(k, "CtfConditionError")
    THEN [log |-> <<"error:Test condition(s) failed in Post Command.">>, raise |-> k]
    ELSE [log |-> <<>>, raise |-> k]

\* pre_command's handlers without the "raise" of the first: a condition
\* failure would end in pre_command.
PreCommandHandlerNoConditionRaise(k) ==
    IF IsInstance(k, "CtfConditionError") THEN [log |-> <<>>, raise |-> "none"]
    ELSE IF IsInstance(k, "CtfTestError") THEN [log |-> <<"debug:exception">>, raise |-> k]
    ELSE [log |-> <<>>, raise |-> k]

\* pre_command's handlers without the "raise e" of the second: a generic test
\* error would be logged and end in pre_command.
PreCommandHandlerNoTestRaise(k) ==
    IF IsInstance(k, "CtfConditionError") THEN [log |-> <<>>, raise |-> k]
    ELSE IF IsInstance(k, "CtfTestError") THEN [log |-> <<"debug:exception">>, raise |-> "none"]
    ELSE [log |-> <<>>, raise |-> k]

\* pre_command: except CtfConditionError / except CtfTestError around
\* run_continuous_verifications()
PreCommandHandler(k) ==
    IF IsInstance(k, "CtfConditionError") THEN [log |-> <<>>, raise |-> k]
    ELSE IF IsInstance(k, "CtfTestError") THEN [log |-> <<"debug:exception">>, raise |-> k]
    ELSE [log |-> <<>>, raise |-> k]

\* An exception of class k on its way through the handlers hs, innermost
\* first: the records logged and the class that leaves the last one.
RECURSIVE Propagate(_, _, _)
Propagate(k, hs, lg) ==
    IF hs = <<>> \/ k = "none" THEN [log |-> lg, raise |-> k]
    ELSE LET h == IF hs[1] = "verifications" THEN VerificationsHandler(k)
                  ELSE IF hs[1] = "pre_command" THEN PreCommandHandler(k)
                  ELSE IF hs[1] = "wait_pre" THEN WaitHandler(k, "CfsTimeManager: Pre-Command Failed")
                  ELSE WaitHandler(k, "CfsTimeManager: Post-Command Failed")
         IN Propagate(h.raise, Tail(hs), lg \o h.log)

\* ------------------------------------------------------------------------
\* Actions
\* ------------------------------------------------------------------------

\* CfsTimeManager.__init__, on one of the registries and with one of the
\* configured periods
ManagerInit(registries, periods) ==
    /\ cfs_targets \in registries
    /\ ctf_verification_poll_period \in {FromRatio(q) : q \in periods}
    /\ exec_time = TimeInterfaceInit
    /\ pc = "idle"
    /\ seconds = FZero
    /\ start_time = FZero
    /\ idx = 0
    /\ exc = "none"
    /\ waits = 0
    /\ polls = 0
    /\ hooks = <<>>
    /\ calls = <<>>
    /\ result = "none"
    /\ log = <<>>

\* A header of one of the classes, as its constructor leaves it
HeaderInitOf(kinds) ==
    /\ hdr_kind \in kinds
    /\ header = NewHeader(hdr_kind)
    /\ assigned = IF hdr_kind = "cmd" THEN <<0, 0>> ELSE <<FromHalves(0, 0), 0>>
    /\ wire = <<>>
    /\ sent = assigned
    /\ decoded = <<>>

Init == ManagerInit(Registries, PollPeriods) /\ HeaderInitOf({"cmd"})

\* A wait that starts its clock anew: exec_time is set back to 0.0 before
\* start_time is taken.
WaitRestart(q) ==
    /\ pc \in {"idle", "returned", "raised"}
    /\ waits < MaxWaits
    /\ waits' = waits + 1
    /\ seconds' = SecondsFloat[q]
    /\ exec_time' = FZero
    /\ start_time' = exec_time'
    /\ pc' = "while"
    /\ idx' = 0
    /\ exc' = "none"
    /\ polls' = 0
    /\ hooks' = <<>>
    /\ calls' = <<>>
    /\ result' = "none"
    /\ log' = <<>>
    /\ UNCHANGED hvars
    /\ UNCHANGED <<cfs_targets, ctf_verification_poll_period>>

\* The caller calls wait(seconds); wait runs up to its while statement.
Wait(q) ==
    /\ pc \in {"idle", "returned", "raised"}
    /\ waits < MaxWaits
    /\ waits' = waits + 1
    /\ seconds' = SecondsFloat[q]
    /\ exec_time' = TimeInterfaceWait(exec_time, SecondsFloat[q])
    /\ start_time' = exec_time'
    /\ pc' = "while"
    /\ idx' = 0
    /\ exc' = "none"
    /\ polls' = 0
    /\ hooks' = <<>>
    /\ calls' = <<>>
    /\ result' = "none"
    /\ log' = <<>>
    /\ UNCHANGED hvars
    /\ UNCHANGED <<cfs_targets, ctf_verification_poll_period>>

\* The condition with <= for <: a poll is made when the time is just up.
WhileConditionInclusive == ~FLess(FAdd(start_time, seconds), exec_time)

\* while self.exec_time < start_time + seconds
WhileCondition == FLess(exec_time, FAdd(start_time, seconds))

\* The condition holds: the body starts, pre_command is called.
WhileEnter ==
    /\ pc = "while"
    /\ WhileCondition
    /\ hooks' = Append(hooks, "pre_command")
    /\ calls' = <<>>
    /\ result' = "none"
    /\ IF TimeInterfacePreCommand = "ok"
       THEN pc' = "read" /\ idx' = 1 /\ exc' = exc /\ log' = <<>>
       ELSE LET h == Propagate(TimeInterfacePreCommand, <<"wait_pre">>, <<>>)
            IN /\ log' = h.log
               /\ idx' = idx
               /\ IF h.raise = "none" THEN pc' = "post" /\ exc' = exc
                  ELSE pc' = "raised" /\ exc' = h.raise
    /\ UNCHANGED hvars
    /\ UNCHANGED <<cfs_targets, ctf_verification_poll_period, exec_time, seconds,
                   start_time, waits, polls>>

\* The condition fails: wait returns.
WhileExit ==
    /\ pc = "while"
    /\ ~WhileCondition
    /\ pc' = "returned"
    /\ UNCHANGED hvars
    /\ UNCHANGED <<cfs_targets, ctf_verification_poll_period, exec_time, seconds,
                   start_time, idx, exc, waits, polls, hooks, calls, result, log>>

\* What target.cfs.read_sb_packets() can do: the call itself on a live
\* target; on the other entries the attribute lookup raises before any call.
ReadResults(target) == IF target = "live" THEN Outcomes ELSE {"AttributeError"}

\* One iteration of pre_command's for loop: target.cfs.read_sb_packets()
\* inside try / except Exception.
ReadSbPackets ==
    /\ pc = "read"
    /\ idx <= NTargets
    /\ \E o \in ReadResults(cfs_targets[idx]) :
         LET h == IF o = "ok" THEN [log |-> <<>>, raise |-> "none"]
                  ELSE ReadHandler(cfs_targets[idx], o)
             w == Propagate(h.raise, <<"wait_pre">>, h.log)
         IN /\ calls' = Append(calls, [op |-> "read_sb_packets", target |-> idx])
            /\ result' = o
            /\ log' = log \o w.log
            /\ IF h.raise = "none"
               THEN pc' = pc /\ idx' = idx + 1 /\ exc' = exc
               ELSE /\ idx' = idx
                    /\ IF w.raise = "none" THEN pc' = "post" /\ exc' = exc
                       ELSE pc' = "raised" /\ exc' = w.raise
    /\ UNCHANGED hvars
    /\ UNCHANGED <<cfs_targets, ctf_verification_poll_period, exec_time, seconds,
                   start_time, waits, polls, hooks>>

\* pre_command's for loop left one entry early: the verification starts
\* with the last entry of the registry not read.
ReadLoopEndEarly ==
    /\ pc = "read"
    /\ idx >= NTargets
    /\ pc' = "verify"
    /\ idx' = 1
    /\ UNCHANGED hvars
    /\ UNCHANGED <<cfs_targets, ctf_verification_poll_period, exec_time, seconds,
                   start_time, exc, waits, polls, hooks, calls, result, log>>

\* pre_command's for loop is exhausted: run_continuous_verifications() is
\* called.
ReadLoopEnd ==
    /\ pc = "read"
    /\ idx > NTargets
    /\ pc' = "verify"
    /\ idx' = 1
    /\ UNCHANGED hvars
    /\ UNCHANGED <<cfs_targets, ctf_verification_poll_period, exec_time, seconds,
                   start_time, exc, waits, polls, hooks, calls, result, log>>

\* if target is not None and target.cfs is not None
HasCheck(target) == target # "none" /\ target # "no_cfs"

\* The iteration with the check inside a try / except Exception of its own,
\* as the read has: a check that raises is logged and the loop goes on.
CheckTlmConditionsIsolated ==
    /\ pc = "verify"
    /\ idx <= NTargets
    /\ HasCheck(cfs_targets[idx])
    /\ \E o \in Outcomes :
         /\ calls' = Append(calls, [op |-> "check_tlm_conditions", target |-> idx])
         /\ result' = o
         /\ log' = IF o = "ok" THEN log
                   ELSE log \o <<"error:Test condition(s) failed in Post Command.">>
         /\ idx' = idx + 1
    /\ UNCHANGED hvars
    /\ UNCHANGED <<cfs_targets, ctf_verification_poll_period, exec_time, pc, seconds,
                   start_time, exc, waits, polls, hooks>>

\* One iteration of run_continuous_verifications' for loop on an entry that
\* passes the test: target.cfs.check_tlm_conditions().
CheckTlmConditions ==
    /\ pc = "verify"
    /\ idx <= NTargets
    /\ HasCheck(cfs_targets[idx])
    /\ \E o \in Outcomes :
         LET w == Propagate(IF o = "ok" THEN "none" ELSE o,
                            <<"verifications", "pre_command", "wait_pre">>, <<>>)
         IN /\ calls' = Append(calls, [op |-> "check_tlm_conditions", target |-> idx])
            /\ result' = o
            /\ log' = log \o w.log
            /\ IF o = "ok"
               THEN pc' = pc /\ idx' = idx + 1 /\ exc' = exc
               ELSE /\ idx' = idx
                    /\ IF w.raise = "none" THEN pc' = "post" /\ exc' = exc
                       ELSE pc' = "raised" /\ exc' = w.raise
    /\ UNCHANGED hvars
    /\ UNCHANGED <<cfs_targets, ctf_verification_poll_period, exec_time, seconds,
                   start_time, waits, polls, hooks>>

\* One iteration that calls nothing, whether the entry passes the test or
\* not: which of the checks are made is left open.
CheckSkippedAny ==
    /\ pc = "verify"
    /\ idx <= NTargets
    /\ idx' = idx + 1
    /\ UNCHANGED hvars
    /\ UNCHANGED <<cfs_targets, ctf_verification_poll_period, exec_time, pc, seconds,
                   start_time, exc, waits, polls, hooks, calls, result, log>>

\* One iteration on an entry that fails the test: nothing is called.
CheckSkipped ==
    /\ pc = "verify"
    /\ idx <= NTargets
    /\ ~HasCheck(cfs_targets[idx])
    /\ idx' = idx + 1
    /\ UNCHANGED hvars
    /\ UNCHANGED <<cfs_targets, ctf_verification_poll_period, exec_time, pc, seconds,
                   start_time, exc, waits, polls, hooks, calls, result, log>>

\* run_continuous_verifications advancing the clock itself when its loop
\* is exhausted.
VerifyLoopEndAdvancing ==
    /\ pc = "verify"
    /\ idx > NTargets
    /\ pc' = "post"
    /\ exec_time' = FAdd(exec_time, ctf_verification_poll_period)
    /\ UNCHANGED hvars
    /\ UNCHANGED <<cfs_targets, ctf_verification_poll_period, seconds,
                   start_time, idx, exc, waits, polls, hooks, calls, result, log>>

\* The for loop is exhausted: run_continuous_verifications and pre_command
\* return.
VerifyLoopEnd ==
    /\ pc = "verify"
    /\ idx > NTargets
    /\ pc' = "post"
    /\ UNCHANGED hvars
    /\ UNCHANGED <<cfs_targets, ctf_verification_poll_period, exec_time, seconds,
                   start_time, idx, exc, waits, polls, hooks, calls, result, log>>

\* The loop body without its call of post_command.
PostCommandOmitted ==
    /\ pc = "post"
    /\ pc' = "sleep"
    /\ UNCHANGED hvars
    /\ UNCHANGED <<cfs_targets, ctf_verification_poll_period, exec_time, seconds,
                   start_time, idx, exc, waits, polls, hooks, calls, result, log>>

\* self.post_command() inside try / except CtfTestError
PostCommand ==
    /\ pc = "post"
    /\ hooks' = Append(hooks, "post_command")
    /\ LET w == Propagate(IF TimeInterfacePostCommand = "ok" THEN "none"
                          ELSE TimeInterfacePostCommand, <<"wait_post">>, <<>>)
       IN /\ log' = log \o w.log
          /\ IF w.raise = "none" THEN pc' = "sleep" /\ exc' = exc
             ELSE pc' = "raised" /\ exc' = w.raise
    /\ UNCHANGED hvars
    /\ UNCHANGED <<cfs_targets, ctf_verification_poll_period, exec_time, seconds,
                   start_time, idx, waits, polls, calls, result>>

\* time.sleep(period); self.exec_time += period
Sleep ==
    /\ pc = "sleep"
    /\ exec_time' = FAdd(exec_time, ctf_verification_poll_period)
    /\ polls' = polls + 1
    /\ pc' = "while"
    /\ UNCHANGED hvars
    /\ UNCHANGED <<cfs_targets, ctf_verification_poll_period, seconds, start_time,
                   idx, exc, waits, hooks, calls, result, log>>

Next ==
    \/ \E q \in SecondsArgs : Wait(q)
    \/ WhileEnter
    \/ WhileExit
    \/ ReadSbPackets
    \/ ReadLoopEnd
    \/ CheckTlmConditions
    \/ CheckSkipped
    \/ VerifyLoopEnd
    \/ PostCommand
    \/ Sleep

Spec == Init /\ [][Next]_vars

\* ------------------------------------------------------------------------
\* Operations on a header
\* ------------------------------------------------------------------------

\* The assignment of v to field i of the header
Assign(i, v) ==
    /\ header' = StoreField(header, Fields(hdr_kind), Pack(hdr_kind), i, v)
    /\ assigned' = [assigned EXCEPT ![i] = v]
    /\ UNCHANGED <<hdr_kind, wire, sent, decoded>>
    /\ UNCHANGED mvars

\* set_function_code(function_code)
SetFunctionCode(v) == hdr_kind = "cmd" /\ Assign(1, v)

\* set_checksum(checksum)
SetChecksum(v) == hdr_kind = "cmd" /\ Assign(2, v)

\* get_function_code()
GetFunctionCode == LoadField(header, CmdFields, CmdPack, 1)

\* get_checksum()
GetChecksum == LoadField(header, CmdFields, CmdPack, 2)

\* h.timestamp_seconds = v
SetTimestampSeconds(v) == hdr_kind = "tlm" /\ Assign(1, v)

\* h.timestamp_subseconds = v
SetTimestampSubseconds(v) == hdr_kind = "tlm" /\ Assign(2, v)

\* bytes(h)
Encode ==
    /\ wire' = Bytes(header)
    /\ sent' = assigned
    /\ decoded' = <<>>
    /\ UNCHANGED <<hdr_kind, header, assigned>>
    /\ UNCHANGED mvars

\* cls.from_buffer_copy(wire), which raises ValueError on too few bytes
Decode ==
    /\ Len(wire) >= SizeOf(Fields(hdr_kind), Pack(hdr_kind))
    /\ wire # <<>>
    /\ decoded' = FromBufferCopy(hdr_kind, wire)
    /\ UNCHANGED <<hdr_kind, header, assigned, wire, sent>>
    /\ UNCHANGED mvars

HeaderInit == ManagerInit({<<>>}, {<<1, 10>>}) /\ HeaderInitOf({"cmd", "tlm"})

HeaderNext ==
    \/ \E v \in ByteArgs : SetFunctionCode(v)
    \/ \E v \in ByteArgs : SetChecksum(v)
    \/ \E v \in SecondsValues : SetTimestampSeconds(v)
    \/ \E v \in SubsecondsValues : SetTimestampSubseconds(v)
    \/ Encode
    \/ Decode

HeaderSpec == HeaderInit /\ [][HeaderNext]_vars

\* ------------------------------------------------------------------------
\* Quantities the properties are stated with
\* ------------------------------------------------------------------------

Last(seq) == seq[Len(seq)]

Count(seq, v) == Cardinality({i \in DOMAIN seq : seq[i] = v})

\* The numeral wait was called with, and the configured one.
SecondsArg == CHOOSE q \in SecondsArgs : FromRatio(q) = seconds

PeriodArg == CHOOSE q \in PollPeriods : FromRatio(q) = ctf_verification_poll_period

\* ceil(q / p) of two numerals, q >= 0 and p > 0, in exact arithmetic
CeilDiv(q, p) == (q[1] * p[2] + q[2] * p[1] - 1) \div (q[2] * p[1])

\* t after n additions of p, each one rounded
RECURSIVE Accumulate(_, _, _)
Accumulate(t, p, n) == IF n = 0 THEN t ELSE Accumulate(FAdd(t, p), p, n - 1)

\* Iterations of "while t < deadline: t += p", none being interrupted
RECURSIVE LoopCount(_, _, _, _)
LoopCount(t, deadline, p, n) ==
    IF FLess(t, deadline) THEN LoopCount(FAdd(t, p), deadline, p, n + 1) ELSE n

\* 1-based number of the poll in progress, or of the last one started
PollNumber == Count(hooks, "pre_command")

\* ------------------------------------------------------------------------
\* C1
\* ------------------------------------------------------------------------

\* C1, its poll count: a wait(seconds) with seconds >= 0 in which no check
\* raises returns after exactly ceil(seconds / poll_period) polls, each one a
\* pre_command, a post_command and an increment of exec_time.
C1_ExactPollCount ==
    (pc = "returned" /\ seconds.s = 0) =>
        LET n == CeilDiv(SecondsArg, PeriodArg)
        IN /\ polls = n
           /\ Count(hooks, "pre_command") = n
           /\ Count(hooks, "post_command") = n

\* ------------------------------------------------------------------------
\* C2
\* ------------------------------------------------------------------------

RxError == "error:Failed to receive CFS Telemetry Packets"

\* The calls of a poll once its reads are over: one per entry, in order.
ReadsOfPoll == [i \in 1..NTargets |-> [op |-> "read_sb_packets", target |-> i]]

\* Polls of the wait in progress when nothing interrupts it
PlannedPolls ==
    LoopCount(start_time, FAdd(start_time, seconds), ctf_verification_poll_period, 0)

\* C2: a read_sb_packets that raises changes nothing but the log: the loop
\* goes on to the next target exactly as after a read that succeeds, one
\* error record (and its trace) is logged for it, every target has been read
\* when the verification starts, and a wait that returns has made the polls
\* it would have made without any read failure.
C2_ReadFaultIsolation ==
    /\ [][(pc = "read" /\ idx <= NTargets /\ cfs_targets[idx] = "live") =>
            /\ pc' = "read" /\ idx' = idx + 1 /\ exc' = "none"
            /\ polls' = polls /\ exec_time' = exec_time /\ hooks' = hooks
            /\ log' = IF result' = "ok" THEN log
                      ELSE log \o <<RxError, "debug:traceback">>]_vars
    /\ [](pc \in {"verify", "post", "sleep"} => SubSeq(calls, 1, NTargets) = ReadsOfPoll)
    /\ [](pc = "returned" => polls = PlannedPolls)

\* wait(0.2) with p = 0.1 on two live targets has returned after 2 polls
\* with the read of one of the two failed and logged in the last.
C2_Witness ==
    /\ pc = "returned"
    /\ cfs_targets = <<"live", "live">>
    /\ start_time = FZero
    /\ seconds = FromRatio(<<1, 5>>)
    /\ ctf_verification_poll_period = FromRatio(<<1, 10>>)
    /\ polls = 2
    /\ Count(log, RxError) = 1

\* ------------------------------------------------------------------------
\* C3
\* ------------------------------------------------------------------------

\* The last call of the poll was a check_tlm_conditions that raised.
VerificationFailed ==
    calls # <<>> /\ Last(calls).op = "check_tlm_conditions" /\ result # "ok"

\* C3, as stated: when check_tlm_conditions raises CtfConditionError on poll
\* k (polls counted from 1), wait raises it and exec_time is k increments
\* past start_time.
C3_FailureAfterKIncrements ==
    (VerificationFailed /\ result = "CtfConditionError") =>
        /\ pc = "raised" /\ exc = "CtfConditionError"
        /\ polls = PollNumber
        /\ exec_time = Accumulate(start_time, ctf_verification_poll_period, PollNumber)

\* C3, amended: when check_tlm_conditions raises CtfConditionError on poll k
\* (polls counted from 1), wait raises it at once, before the post_command
\* and the increment of poll k: exec_time is k - 1 increments past
\* start_time.
C3_FailureAfterCompletedPolls ==
    (VerificationFailed /\ result = "CtfConditionError") =>
        /\ pc = "raised" /\ exc = "CtfConditionError"
        /\ polls = PollNumber - 1
        /\ Count(hooks, "post_command") = PollNumber - 1
        /\ exec_time = Accumulate(start_time, ctf_verification_poll_period, PollNumber - 1)

\* A condition failure on poll 2: one increment made.
C3_Witness ==
    /\ VerificationFailed /\ result = "CtfConditionError"
    /\ pc = "raised" /\ exc = "CtfConditionError"
    /\ PollNumber = 2
    /\ polls = 1
    /\ exec_time = FAdd(start_time, ctf_verification_poll_period)

\* ------------------------------------------------------------------------
\* C4
\* ------------------------------------------------------------------------

\* C4: once a check_tlm_conditions has raised, wait is over: the control has
\* left it with the poll unfinished (no post_command for it), and the only
\* step that follows is the caller's next call of wait; no read, check,
\* post_command, sleep or increment of this wait happens any more.
C4_NoPartialCompletion ==
    /\ [](VerificationFailed =>
            /\ pc = "raised"
            /\ Last(hooks) = "pre_command"
            /\ polls = PollNumber - 1)
    /\ [][VerificationFailed => (waits' = waits + 1 /\ pc' = "while" /\ polls' = 0
                                 /\ calls' = <<>> /\ hooks' = <<>>
                                 /\ exec_time' = exec_time)]_vars

\* The verification has failed on poll 2 of a wait(0.5) with p = 0.1, which
\* plans 5 polls.
C4_Witness ==
    /\ VerificationFailed
    /\ pc = "raised"
    /\ PollNumber = 2
    /\ PlannedPolls = 5
    /\ polls = 1

\* ------------------------------------------------------------------------
\* C5
\* ------------------------------------------------------------------------

LogEndsWith(recs) ==
    /\ Len(log) >= Len(recs)
    /\ SubSeq(log, Len(log) - Len(recs) + 1, Len(log)) = recs

\* C5: a CtfTestError that is not a condition failure, raised by a
\* check_tlm_conditions, leaves run_continuous_verifications, pre_command
\* (which logs it at debug level) and wait (which logs the failure of the
\* pre-command): wait has raised it, and the check was called once.
C5_GenericTestErrorPropagates ==
    (VerificationFailed /\ result = "CtfTestError") =>
        /\ pc = "raised" /\ exc = "CtfTestError"
        /\ LogEndsWith(<<"debug:exception",
                         "error:CfsTimeManager: Pre-Command Failed", "debug:exception">>)
        /\ \A i, j \in DOMAIN calls : calls[i] = calls[j] => i = j

\* A generic test error of the check of the second target has ended wait.
C5_Witness ==
    /\ VerificationFailed /\ result = "CtfTestError"
    /\ Last(calls).target = 2
    /\ pc = "raised" /\ exc = "CtfTestError"

\* ------------------------------------------------------------------------
\* C6
\* ------------------------------------------------------------------------

\* The last call of the poll was a read that raised (on an entry that is
\* None or has no cfs, the lookup of the method raised).
ReadFailed ==
    calls # <<>> /\ Last(calls).op = "read_sb_packets" /\ result # "ok"

\* C6, as stated: whatever is raised while reading the packets of an entry
\* of the registry, an entry that is None or has no cfs included, is caught,
\* logged and suppressed: the loop goes on and wait is not aborted.
C6_ReadFailureSuppressed ==
    ReadFailed =>
        /\ pc # "raised"
        /\ exc = "none"
        /\ LogEndsWith(<<RxError, "debug:traceback">>)

\* ------------------------------------------------------------------------
\* C7
\* ------------------------------------------------------------------------

\* C7, as stated: wait ends before exec_time >= start_time + seconds only
\* by the error of a check_tlm_conditions: when it has raised, the last call
\* was a check that raised, and when it has returned, the time is up.
C7_OnlyVerificationEndsEarly ==
    /\ pc = "raised" => VerificationFailed
    /\ pc = "returned" => ~WhileCondition

\* ------------------------------------------------------------------------
\* C8
\* ------------------------------------------------------------------------

\* The hooks called so far alternate, pre_command first.
HooksAlternate ==
    \A i \in DOMAIN hooks :
        hooks[i] = IF i % 2 = 1 THEN "pre_command" ELSE "post_command"

\* C8, as stated: the hooks alternate, each increment of exec_time has its
\* pre_command and its post_command, and a wait that is over, aborted or
\* not, has no poll with only one of the two hooks called.
C8_HooksBothOrNeither ==
    /\ HooksAlternate
    /\ pc \in {"while", "returned", "raised"} =>
           /\ Count(hooks, "pre_command") = polls
           /\ Count(hooks, "post_command") = polls

\* C8, amended: the hooks alternate, pre_command first; at the while
\* statement and when wait is over exec_time is polls increments past
\* start_time, and each of these polls has had its pre_command, then its
\* post_command, before its increment; the poll that
\* is aborted has had its pre_command called, which raised, and neither a
\* post_command nor an increment.
C8_HooksPairedUntilAbort ==
    /\ HooksAlternate
    /\ pc \in {"while", "returned", "raised"} =>
           exec_time = Accumulate(start_time, ctf_verification_poll_period, polls)
    /\ pc \in {"while", "returned"} => Len(hooks) = 2 * polls
    /\ pc \in {"read", "verify", "post", "raised"} => Len(hooks) = 2 * polls + 1
    /\ pc = "sleep" => Len(hooks) = 2 * polls + 2

\* A wait aborted in its second poll: pre, post, pre.
C8_Witness ==
    /\ pc = "raised"
    /\ polls = 1
    /\ hooks = <<"pre_command", "post_command", "pre_command">>
    /\ exec_time = FAdd(start_time, ctf_verification_poll_period)

\* ------------------------------------------------------------------------
\* C9
\* ------------------------------------------------------------------------

\* Whether the integers vs fit the fields of a header of that class.
InRange(kind, vs) ==
    IF kind = "cmd" THEN vs[1] \in 0..255 /\ vs[2] \in 0..255
    ELSE vs[1][2] < 32 /\ vs[2] \in 0..65535

\* C9: the bytes of a command header are 2, those of a telemetry header 6;
\* for field values within range they are the fields in declared order,
\* each with its most significant byte first, and the header decoded from
\* them has the same field values.
C9_RoundTripAndLayout ==
    /\ Len(header) = IF hdr_kind = "cmd" THEN 2 ELSE 6
    /\ wire # <<>> => Len(wire) = IF hdr_kind = "cmd" THEN 2 ELSE 6
    /\ (wire # <<>> /\ InRange(hdr_kind, sent)) =>
           IF hdr_kind = "cmd" THEN wire = <<sent[1], sent[2]>>
           ELSE /\ <<(wire[1] % 8) * 16777216 + wire[2] * 65536 + wire[3] * 256 + wire[4],
                     wire[1] \div 8>> = sent[1]
                /\ wire[5] * 256 + wire[6] = sent[2]
    /\ (decoded # <<>> /\ InRange(hdr_kind, sent)) =>
           /\ Len(decoded) = Len(header)
           /\ \A i \in 1..2 :
                  LoadField(decoded, Fields(hdr_kind), Pack(hdr_kind), i) = sent[i]

\* A telemetry header of 0x89ABCDEF seconds and 0x0506 subseconds has made
\* the round trip.
C9_Witness ==
    /\ hdr_kind = "tlm"
    /\ sent = <<FromHalves(35243, 52719), 1286>>
    /\ wire = <<137, 171, 205, 239, 5, 6>>
    /\ decoded = wire

\* ------------------------------------------------------------------------
\* C10
\* ------------------------------------------------------------------------

\* C10: whatever integers the two setters of a command header were last
\* called with, in range or not, get_function_code returns the one of
\* set_function_code modulo 2^8 and get_checksum the one of set_checksum
\* modulo 2^8: a setter changes its field only and rejects nothing.
C10_AccessorsWrap ==
    hdr_kind = "cmd" =>
        /\ GetFunctionCode = assigned[1] % 256
        /\ GetChecksum = assigned[2] % 256

\* set_function_code(300) and set_checksum(-1) have been called.
C10_Witness ==
    /\ hdr_kind = "cmd"
    /\ assigned = <<300, -1>>
    /\ GetFunctionCode = 44
    /\ GetChecksum = 255

\* ------------------------------------------------------------------------
\* C11
\* ------------------------------------------------------------------------

\* The reads of the first n entries of the registry, in its order
ReadsUpTo(n) == [i \in 1..n |-> [op |-> "read_sb_packets", target |-> i]]

\* The checks of those of the first n entries that have a check, in the
\* order of the registry
ChecksUpTo(n) ==
    LET checked == SelectSeq([i \in 1..n |-> i], LAMBDA i : HasCheck(cfs_targets[i]))
    IN [j \in 1..Len(checked) |-> [op |-> "check_tlm_conditions", target |-> checked[j]]]

\* C11: in each poll the calls on the targets are reads in the order of the
\* registry, then checks in the order of the registry, and no check is
\* called before every entry has been read; while the reads go on exactly
\* the entries before the current one have been read, while the checks go
\* on exactly the entries before the current one have been checked; the
\* sleep and the increment of a poll come after both of its hooks: at the
\* sleep the poll has had its pre_command and its post_command, and never
\* are there more increments than pre_commands or post_commands.
C11_OrderInPoll ==
    /\ \E r, c \in 0..NTargets :
           /\ calls = ReadsUpTo(r) \o ChecksUpTo(c)
           /\ ChecksUpTo(c) # <<>> => r = NTargets
    /\ pc = "read" => calls = ReadsUpTo(idx - 1)
    /\ pc = "verify" => calls = ReadsOfPoll \o ChecksUpTo(idx - 1)
    /\ pc = "sleep" =>
           /\ calls = ReadsOfPoll \o ChecksUpTo(NTargets)
           /\ Len(hooks) = 2 * (polls + 1)
           /\ Last(hooks) = "post_command"
    /\ polls <= Count(hooks, "pre_command")
    /\ polls <= Count(hooks, "post_command")

\* The second poll on two live targets is about to sleep: both were read,
\* then both were checked, and both hooks have returned.
C11_Witness ==
    /\ pc = "sleep"
    /\ polls = 1
    /\ cfs_targets = <<"live", "live">>
    /\ calls = <<[op |-> "read_sb_packets", target |-> 1],
                 [op |-> "read_sb_packets", target |-> 2],
                 [op |-> "check_tlm_conditions", target |-> 1],
                 [op |-> "check_tlm_conditions", target |-> 2]>>
    /\ hooks = <<"pre_command", "post_command", "pre_command", "post_command">>

\* ------------------------------------------------------------------------
\* C12
\* ------------------------------------------------------------------------

\* C12: no step of the manager, inside a wait or between two waits, after a
\* wait that returned or after one that raised, makes exec_time smaller; and
\* a call of wait takes as its start_time the exec_time the wait before it
\* ended with, which it leaves as it is.
C12_ExecTimeMonotonic ==
    [][/\ ~FLess(exec_time', exec_time)
       /\ waits' # waits => (start_time' = exec_time /\ exec_time' = exec_time)]_vars

\* A second wait, started where a first one had brought exec_time, has been
\* aborted after at least one poll of its own.
C12_Witness ==
    /\ waits = 2
    /\ pc = "raised"
    /\ FLess(FZero, start_time)
    /\ FLess(start_time, exec_time)

\* ------------------------------------------------------------------------
\* C13
\* ------------------------------------------------------------------------

\* C13, as stated: when a wait(seconds) with seconds >= 0 has returned,
\* start_time + seconds <= exec_time < start_time + seconds + poll_period,
\* the sums and the comparisons being those of the floats of the program.
C13_AdvanceWithinOnePeriod ==
    (pc = "returned" /\ seconds.s = 0) =>
        LET deadline == FAdd(start_time, seconds)
        IN /\ ~FLess(exec_time, deadline)
           /\ FLess(exec_time, FAdd(deadline, ctf_verification_poll_period))

\* ------------------------------------------------------------------------
\* C14
\* ------------------------------------------------------------------------

\* The calls of a poll that nothing interrupts, as the registry fixes them
CallsOfPoll == ReadsOfPoll \o ChecksUpTo(NTargets)

\* C14: the calls on the targets and the final exec_time are functions of
\* what wait starts from (exec_time, seconds, poll period, registry) and of
\* the outcomes of the calls, so that two executions that agree on these
\* agree on the calls and on the final exec_time: the calls of a poll are
\* always the first ones of the sequence the registry fixes; they stop short
\* of it only where a call has raised and ended the wait; every poll that
\* was completed made all of them; and a wait that is over has made the
\* increments of its completed polls, which for a wait that returned are
\* the polls that start_time, seconds and the period fix.
C14_CallOrderDetermined ==
    /\ calls = SubSeq(CallsOfPoll, 1, Len(calls))
    /\ (pc \in {"post", "sleep"} \/ (pc \in {"while", "returned"} /\ polls > 0)) =>
           calls = CallsOfPoll
    /\ (pc = "raised" /\ calls # <<>>) => result # "ok"
    /\ pc = "raised" =>
           exec_time = Accumulate(start_time, ctf_verification_poll_period, polls)
    /\ pc = "returned" =>
           /\ polls = PlannedPolls
           /\ exec_time = Accumulate(start_time, ctf_verification_poll_period, PlannedPolls)

\* A wait of 2 polls on a live target and one without cfs has returned: in
\* its last poll both were read, then the live one was checked.
C14_Witness ==
    /\ pc = "returned"
    /\ polls = 2
    /\ cfs_targets = <<"live", "no_cfs">>
    /\ calls = <<[op |-> "read_sb_packets", target |-> 1],
                 [op |-> "read_sb_packets", target |-> 2],
                 [op |-> "check_tlm_conditions", target |-> 1]>>
    /\ FLess(start_time, exec_time)

\* ------------------------------------------------------------------------
\* C15
\* ------------------------------------------------------------------------

\* C15: no step changes the registry of targets or the poll period; the
\* only step that changes exec_time is the increment by the period that
\* ends a poll, after the sleep; the steps of pre_command, of
\* run_continuous_verifications and of post_command leave exec_time as it
\* is, those that raise included.
C15_FrameConditions ==
    [][/\ cfs_targets' = cfs_targets
       /\ ctf_verification_poll_period' = ctf_verification_poll_period
       /\ exec_time' # exec_time =>
              /\ pc = "sleep" /\ pc' = "while"
              /\ exec_time' = FAdd(exec_time, ctf_verification_poll_period)
              /\ polls' = polls + 1
       /\ (pc \in {"read", "verify", "post"} \/ pc' = "raised") =>
              exec_time' = exec_time]_vars

\* A check has raised in the third poll of a wait on two targets: two
\* increments were made, none by the poll that raised.
C15_Witness ==
    /\ pc = "raised"
    /\ VerificationFailed
    /\ Len(cfs_targets) = 2
    /\ PollNumber = 3
    /\ exec_time = Accumulate(start_time, ctf_verification_poll_period, 2)

\* ------------------------------------------------------------------------
\* C16
\* ------------------------------------------------------------------------

\* C16: when the check_tlm_conditions of the entry at position i has raised,
\* whatever it raised, wait has raised that very error; the checks called in
\* the poll are those of the entries up to i that have a check, the one of i
\* last, so that no entry after i was checked and i is the first entry
\* whose check failed.
C16_FirstFailureEndsVerification ==
    VerificationFailed =>
        /\ pc = "raised"
        /\ exc = result
        /\ calls = ReadsOfPoll \o ChecksUpTo(Last(calls).target)
        /\ \A j \in DOMAIN calls : calls[j].op = "check_tlm_conditions" =>
               calls[j].target <= Last(calls).target

\* Of two live targets the first has failed its check: wait has raised the
\* condition error and the second was read but not checked.
C16_Witness ==
    /\ cfs_targets = <<"live", "live">>
    /\ pc = "raised"
    /\ exc = "CtfConditionError"
    /\ calls = <<[op |-> "read_sb_packets", target |-> 1],
                 [op |-> "read_sb_packets", target |-> 2],
                 [op |-> "check_tlm_conditions", target |-> 1]>>

\* ------------------------------------------------------------------------
\* C17
\* ------------------------------------------------------------------------

\* C17, as stated: an entry of the registry that is None or has no cfs is
\* skipped by the verification without anything being raised, the check of
\* every other entry is still called in that poll, and wait is not aborted
\* by such an entry: a poll that has got through its pre_command has checked
\* exactly the entries that have a check, and a wait that has raised has
\* done so on a call on an entry that has one.
C17_DeadEntriesSkipped ==
    /\ pc \in {"post", "sleep"} => calls = ReadsOfPoll \o ChecksUpTo(NTargets)
    /\ pc = "verify" => calls = ReadsOfPoll \o ChecksUpTo(idx - 1)
    /\ pc = "raised" =>
           /\ calls # <<>>
           /\ HasCheck(cfs_targets[Last(calls).target])

\* ------------------------------------------------------------------------
\* C18
\* ------------------------------------------------------------------------

\* C18, its bound: the polls of a wait never exceed ceil(seconds /
\* poll_period), none being made when seconds is negative; so the loop ends,
\* by a return or by an error, after at most that many polls.
C18_PollsBounded ==
    polls <= IF seconds.s = 0 THEN CeilDiv(SecondsArg, PeriodArg) ELSE 0

\* ------------------------------------------------------------------------
\* C19
\* ------------------------------------------------------------------------

\* C19: a wait called with seconds <= 0 makes no poll: it goes from its
\* while condition, which fails, to its return, with no hook called, no
\* call on any target, no increment (exec_time is the start_time), and no
\* error, whatever the targets of the registry would do if they were called.
C19_NoPollWithoutTime ==
    (waits > 0 /\ ~FLess(FZero, seconds)) =>
        /\ pc \in {"while", "returned"}
        /\ ~WhileCondition
        /\ polls = 0
        /\ hooks = <<>>
        /\ calls = <<>>
        /\ exc = "none"
        /\ exec_time = start_time

\* A wait(-0.1) called after a wait that had advanced exec_time, on a
\* registry with a live target, has returned.
C19_Witness ==
    /\ waits = 2
    /\ pc = "returned"
    /\ seconds = FromRatio(<<-1, 10>>)
    /\ cfs_targets = <<"live">>
    /\ FLess(FZero, exec_time)
    /\ polls = 0

=============================================================================
